---- MODULE Spec2Model ----
(***************************************************************************)
(* A model of RPA.Desktop.Windows (src/src/RPA/Desktop/Windows.py): the    *)
(* application registry and its lifecycle keywords, the locator parser,    *)
(* the element matcher, the rectangle parser and the click keywords.       *)
(*                                                                         *)
(* A keyword is one action.  Its body is computed on a record `s` of the   *)
(* object's fields and of the desktop it drives; s.exc names the exception *)
(* that ended the keyword ("none" when it returned).  A statement that     *)
(* follows a raised exception is skipped, what was assigned before it is   *)
(* kept, as in Python.                                                     *)
(***************************************************************************)
EXTENDS Integers, Sequences, FiniteSets, TLC

VARIABLES
    apps,                 \* self._apps: id -> session record
    app_instance_id,      \* self._app_instance_id
    active_app_instance,  \* self._active_app_instance
    app,                  \* self.app
    dlg,                  \* self.dlg: the window specification, by its title
    windowtitle,          \* self.windowtitle
    alive,                \* desktop: the handles of the running applications
    windows,              \* desktop: the open windows, [title, proc]
    nproc,                \* desktop: number of applications started so far
    com,                  \* desktop: the handles that are COM dispatch objects
    last,                 \* the last keyword called, its argument and outcome
    calls,                \* the backend calls the last keyword made, in order
    click,                \* the inputs and findings of the last click keyword
    returned,             \* the ids the registrations have returned so far
    id_limit,             \* the number of registrations this run is cut at
    tree,                 \* desktop: the controls the backend lists for a window
    pin,                  \* input of the last pure-function call
    pout                  \* its result

vars == <<apps, app_instance_id, active_app_instance, app, dlg, windowtitle,
          alive, windows, nproc, com, last, calls, click, returned, id_limit,
          tree, pin, pout>>

progvars == <<apps, app_instance_id, active_app_instance, app, dlg, windowtitle>>
envvars == <<alive, windows, nproc, com>>
purevars == <<pin, pout>>

----------------------------------------------------------------------------
(* Bounds *)

MaxId == 2
MaxClickId == 1
MaxCoord == 11
MaxPieces == 3

(* Values *)

NoActive == -1
NoneApp == 0
NoneStr == "<None>"
Absent == "<absent>"

Titles == {"t1", "t2"}
Executables == {"e1"}

Max(S) == CHOOSE x \in S : \A y \in S : y <= x

----------------------------------------------------------------------------
(* Strings: a Python str is the sequence of its characters *)

Digits == <<"0", "1", "2", "3", "4", "5", "6", "7", "8", "9">>

IsDigit(c) == \E i \in 1..10 : Digits[i] = c

DigitValue(c) == (CHOOSE i \in 1..10 : Digits[i] = c) - 1

StartsWith(s, p) == Len(s) >= Len(p) /\ SubSeq(s, 1, Len(p)) = p

\* str.find: the first index at which sep occurs in s, 0 when it does not.
Find(s, sep) ==
    LET hits == {i \in 1..(Len(s) - Len(sep) + 1) :
                    SubSeq(s, i, i + Len(sep) - 1) = sep}
    IN IF hits = {} THEN 0 ELSE CHOOSE i \in hits : \A j \in hits : i <= j

\* str.split(sep): the pieces between the occurrences of sep, left to right.
RECURSIVE Split(_, _)
Split(s, sep) ==
    LET i == Find(s, sep)
    IN IF i = 0 THEN <<s>>
       ELSE <<SubSeq(s, 1, i - 1)>> \o Split(SubSeq(s, i + Len(sep), Len(s)), sep)

\* "".join(pieces)
RECURSIVE Join(_)
Join(pieces) == IF pieces = <<>> THEN <<>> ELSE Head(pieces) \o Join(Tail(pieces))

\* "%d" % n
RECURSIVE FormatNat(_)
FormatNat(n) ==
    IF n < 10 THEN <<Digits[n + 1]>>
    ELSE FormatNat(n \div 10) \o <<Digits[(n % 10) + 1]>>

FormatInt(n) == IF n < 0 THEN <<"-">> \o FormatNat(0 - n) ELSE FormatNat(n)

\* int(text) of a text of decimal digits
RECURSIVE ParseNat(_)
ParseNat(ds) ==
    IF Len(ds) = 1 THEN DigitValue(ds[1])
    ELSE 10 * ParseNat(SubSeq(ds, 1, Len(ds) - 1)) + DigitValue(ds[Len(ds)])

\* int(a / 2): the true quotient, truncated towards zero
IntHalf(a) == IF a >= 0 THEN a \div 2 ELSE 0 - ((0 - a) \div 2)

----------------------------------------------------------------------------
(* Locator parser *)

PrefixName == <<"n", "a", "m", "e", ":">>
PrefixClass == <<"c", "l", "a", "s", "s", ":">>
PrefixType == <<"t", "y", "p", "e", ":">>
PrefixId == <<"i", "d", ":">>

\* "".join(locator.split(prefix)[1:])
StripPrefix(locator, prefix) == Join(Tail(Split(locator, prefix)))

determine_search_criteria(locator) ==
    IF StartsWith(locator, PrefixName)
    THEN [criteria |-> "name", locator |-> StripPrefix(locator, PrefixName)]
    ELSE IF StartsWith(locator, PrefixClass)
    THEN [criteria |-> "class_name", locator |-> StripPrefix(locator, PrefixClass)]
    ELSE IF StartsWith(locator, PrefixType)
    THEN [criteria |-> "control_type", locator |-> StripPrefix(locator, PrefixType)]
    ELSE IF StartsWith(locator, PrefixId)
    THEN [criteria |-> "automation_id", locator |-> StripPrefix(locator, PrefixId)]
    ELSE [criteria |-> "any", locator |-> locator]

----------------------------------------------------------------------------
(* Element matcher: a snapshot is a function from the attribute names it has
   to their texts *)

MatchFields == {"name", "class_name", "control_type", "automation_id"}

\* The 'any' criterion that leaves the automation id out.
is_element_matching_no_id(itemdict, locator, criteria) ==
    IF criteria # "any"
    THEN criteria \in DOMAIN itemdict /\ itemdict[criteria] = locator
    ELSE \E f \in {"name", "class_name", "control_type"} :
            f \in DOMAIN itemdict /\ itemdict[f] = locator

RECURSIVE is_element_matching(_, _, _)
is_element_matching(itemdict, locator, criteria) ==
    IF criteria # "any" /\ criteria \in DOMAIN itemdict
       /\ itemdict[criteria] = locator
    THEN TRUE
    ELSE IF criteria = "any"
    THEN LET name_search == is_element_matching(itemdict, locator, "name")
             class_search == is_element_matching(itemdict, locator, "class_name")
             type_search == is_element_matching(itemdict, locator, "control_type")
             id_search == is_element_matching(itemdict, locator, "automation_id")
         IN IF name_search \/ class_search \/ type_search \/ id_search
            THEN TRUE ELSE FALSE
    ELSE FALSE

\* find_element's first result: the snapshots of the tree that match, in order.
RECURSIVE find_element(_, _, _)
find_element(elements, locator, search_criteria) ==
    IF elements = <<>> THEN <<>>
    ELSE (IF is_element_matching(Head(elements), locator, search_criteria)
          THEN <<Head(elements)>> ELSE <<>>)
         \o find_element(Tail(elements), locator, search_criteria)

----------------------------------------------------------------------------
(* Rectangle parser *)

\* str(rectangle) of the backend: "(L%d, T%d, R%d, B%d)"
FormatRect(l, t, r, b) ==
    <<"(", "L">> \o FormatInt(l) \o <<",", " ", "T">> \o FormatInt(t)
    \o <<",", " ", "R">> \o FormatInt(r) \o <<",", " ", "B">> \o FormatInt(b)
    \o <<")">>

\* The ends of the runs of digits that start at i.
DigitRunEnds(s, i) ==
    {e \in i..Len(s) : \A k \in i..e : IsDigit(s[k])}

\* re.match of  (\d+).*X(\d+).*Y(\d+)...\)  from index i, X, Y, ... the letters
\* left: the groups of the first match in the order a backtracking matcher
\* tries them (each \d+ and each .* as long as it can be), <<>> for no match.
RECURSIVE MatchGroups(_, _, _)
MatchGroups(s, i, letters) ==
    IF letters = <<>>
    THEN LET ok == {e \in DigitRunEnds(s, i) : e < Len(s) /\ s[e + 1] = ")"}
         IN IF ok = {} THEN <<>> ELSE <<SubSeq(s, i, Max(ok))>>
    ELSE LET cands == {c \in DigitRunEnds(s, i) \X (1..Len(s)) :
                          /\ c[2] > c[1]
                          /\ s[c[2]] = Head(letters)
                          /\ MatchGroups(s, c[2] + 1, Tail(letters)) # <<>>}
         IN IF cands = {} THEN <<>>
            ELSE LET e == Max({c[1] : c \in cands})
                     p == Max({c[2] : c \in {d \in cands : d[1] = e}})
                 IN <<SubSeq(s, i, e)>> \o MatchGroups(s, p + 1, Tail(letters))

\* re.match(r"\(L(\d+).*T(\d+).*R(\d+).*B(\d+)\)", rectangle).groups()
RectGroups(rectangle) ==
    IF Len(rectangle) >= 2 /\ rectangle[1] = "(" /\ rectangle[2] = "L"
    THEN MatchGroups(rectangle, 3, <<"T", "R", "B">>)
    ELSE <<>>

\* <<left, top, right, bottom>>; applies only where RectGroups matches.
get_element_coordinates(rectangle) ==
    LET g == RectGroups(rectangle)
    IN <<ParseNat(g[1]), ParseNat(g[2]), ParseNat(g[3]), ParseNat(g[4])>>

\* The centre taken as half the right and bottom edges.
get_element_center_no_origin(rectangle) ==
    LET c == get_element_coordinates(rectangle)
    IN <<IntHalf(c[3]), IntHalf(c[4])>>

get_element_center(rectangle) ==
    LET c == get_element_coordinates(rectangle)
    IN <<IntHalf(c[3] - c[1]) + c[1], IntHalf(c[4] - c[2]) + c[2]>>

----------------------------------------------------------------------------
(* The object and the desktop as one record *)

Cur ==
    [apps |-> apps, app_instance_id |-> app_instance_id,
     active_app_instance |-> active_app_instance, app |-> app, dlg |-> dlg,
     windowtitle |-> windowtitle, alive |-> alive, windows |-> windows,
     nproc |-> nproc, com |-> com, calls |-> <<>>, exc |-> "none",
     ret |-> "None", nmatch |-> -1, cx |-> 0, cy |-> 0]

Raise(s, e) == [s EXCEPT !.exc = e]

Call(s, fn, a, b) == [s EXCEPT !.calls = Append(@, [fn |-> fn, a |-> a, b |-> b])]

\* The applications that show a window with this title.
Owners(s, title) == {w.proc : w \in {v \in s.windows : v.title = title}}

\* The windows a lookup by title may resolve to (none: NoneApp).
Picks(s, title) == IF Owners(s, title) = {} THEN {NoneApp} ELSE Owners(s, title)

\* pywinauto.Application(...).start(executable): a new process, and its window
\* under the title when it shows one.
StartProcess(s, title, shows) ==
    LET h == s.nproc + 1 IN
    [s EXCEPT !.nproc = h, !.alive = @ \cup {h},
              !.windows = IF shows THEN @ \cup {[title |-> title, proc |-> h]} ELSE @]

\* win32com.client.gencache.EnsureDispatch: a new COM application object.
Dispatch(s) ==
    LET h == s.nproc + 1 IN
    [s EXCEPT !.nproc = h, !.alive = @ \cup {h}, !.com = @ \cup {h}]

----------------------------------------------------------------------------
(* Registry *)

connect_by_handle(s, title, pick) ==
    IF s.exc # "none" THEN s
    ELSE IF Owners(s, title) = {} THEN Raise(s, "ElementNotFoundError")
    ELSE LET h == IF pick \in Owners(s, title) THEN pick
                  ELSE Max(Owners(s, title))
         IN [s EXCEPT !.app = h, !.apps[s.active_app_instance].app = h]

\* The window opened without the registry entry of the active session.
open_dialog_detached(s, wt, pick) ==
    IF s.exc # "none" THEN s
    ELSE LET title == IF wt # NoneStr THEN wt ELSE s.windowtitle
             s1 == [s EXCEPT !.windowtitle = title, !.dlg = title]
         IN IF s1.active_app_instance \notin DOMAIN s1.apps
            THEN s1
            ELSE LET s2 == [s1 EXCEPT !.apps[s1.active_app_instance].dlg = title]
                 IN IF s2.apps[s2.active_app_instance].app = NoneApp
                    THEN connect_by_handle(s2, title, pick)
                    ELSE s2

open_dialog(s, wt, pick) ==
    IF s.exc # "none" THEN s
    ELSE LET title == IF wt # NoneStr THEN wt ELSE s.windowtitle
             s1 == [s EXCEPT !.windowtitle = title, !.dlg = title]
         IN IF s1.active_app_instance \notin DOMAIN s1.apps
            THEN Raise(s1, "KeyError")
            ELSE LET s2 == [s1 EXCEPT !.apps[s1.active_app_instance].dlg = title]
                 IN IF s2.apps[s2.active_app_instance].app = NoneApp
                    THEN connect_by_handle(s2, title, pick)
                    ELSE s2

restore_dialog(s, title) ==
    IF s.exc # "none" THEN s
    ELSE LET s1 == [s EXCEPT !.dlg = title]
         IN IF Owners(s1, title) = {} THEN Raise(s1, "ElementNotFoundError")
            ELSE Call(s1, "restore", Max(Owners(s1, title)), 0)

\* dict.get("windowtitle", None)
GetTitle(rec) == IF rec.windowtitle = Absent THEN NoneStr ELSE rec.windowtitle

\* An id handed out again once an earlier session was quit.
NextIdReused(s) ==
    Cardinality({i \in DOMAIN s.apps : s.apps[i].app # NoneApp}) + 1

\* self._app_instance_id += 1
NextId(s) == s.app_instance_id + 1

\* params: [dispatched, windowtitle, executable], Absent for a key not given.
add_app_instance(s, appArg, dialog, params, pick) ==
    LET id == NextId(s)
        a == IF appArg = NoneApp THEN s.app ELSE appArg
        rec == [app |-> a, id |-> id, dispatched |-> params.dispatched,
                windowtitle |-> params.windowtitle,
                executable |-> params.executable, dlg |-> Absent]
        s1 == [s EXCEPT !.app_instance_id = id, !.app = a,
                        !.apps = [i \in DOMAIN @ \cup {id} |->
                                     IF i = id THEN rec ELSE @[i]],
                        !.active_app_instance = id]
    IN IF dialog THEN open_dialog(s1, GetTitle(s1.apps[id]), pick) ELSE s1

\* The value a registration returns: self._active_app_instance.
AddReturn(s) == s.active_app_instance

get_app(s, by_id, app_id) ==
    IF ~by_id /\ s.active_app_instance # NoActive
    THEN s.active_app_instance
    ELSE IF by_id /\ app_id \in DOMAIN s.apps THEN app_id ELSE NoActive

\* app["app"].Quit()
ComQuit(s, h) ==
    IF h = NoneApp \/ h \notin s.com THEN Raise(s, "AttributeError")
    ELSE IF h \notin s.alive THEN Raise(s, "com_error")
    ELSE Call([s EXCEPT !.alive = @ \ {h}], "Quit", h, 0)

\* app["app"].kill()
Kill(s, h) ==
    IF h = NoneApp \/ h \in s.com THEN Raise(s, "AttributeError")
    ELSE Call([s EXCEPT !.alive = @ \ {h},
                        !.windows = {w \in @ : w.proc # h}], "kill", h, 0)

Terminate(s, rec) ==
    IF rec.dispatched THEN ComQuit(s, rec.app) ELSE Kill(s, rec.app)

\* The active pointer left as it was when the session is quit.
quit_keeps_active(s, by_id, app_id) ==
    IF s.exc # "none" THEN s
    ELSE LET k == get_app(s, by_id, app_id) IN
         IF k = NoActive THEN Raise(s, "KeyError")
         ELSE LET s1 == Terminate(s, s.apps[k]) IN
              IF s1.exc # "none" THEN s1
              ELSE [s1 EXCEPT !.apps[s.apps[k].id].app = NoneApp]

quit(s, by_id, app_id) ==
    IF s.exc # "none" THEN s
    ELSE LET k == get_app(s, by_id, app_id) IN
         IF k = NoActive THEN Raise(s, "KeyError")
         ELSE LET s1 == Terminate(s, s.apps[k]) IN
              IF s1.exc # "none" THEN s1
              ELSE [s1 EXCEPT !.apps[s.apps[k].id].app = NoneApp,
                              !.active_app_instance = NoActive]

\* The active pointer and the handle assigned before the id is looked up.
switch_unchecked(s, app_id, pick) ==
    LET s1 == [s EXCEPT !.active_app_instance = app_id, !.app = NoneApp]
    IN IF app_id # 0 /\ app_id \in DOMAIN s.apps
       THEN LET rec == s.apps[app_id]
                s2 == [s1 EXCEPT !.app = rec.app]
            IN IF rec.windowtitle = Absent THEN Raise(s2, "KeyError")
               ELSE restore_dialog(open_dialog(s2, rec.windowtitle, pick),
                                   rec.windowtitle)
       ELSE Raise(s1, "ValueError")

switch_to_application(s, app_id, pick) ==
    IF app_id # 0 /\ app_id \in DOMAIN s.apps
    THEN LET rec == s.apps[app_id]
             s1 == [s EXCEPT !.active_app_instance = app_id, !.app = rec.app]
         IN IF rec.windowtitle = Absent THEN Raise(s1, "KeyError")
            ELSE restore_dialog(open_dialog(s1, rec.windowtitle, pick),
                                rec.windowtitle)
    ELSE Raise(s, "ValueError")

RECURSIVE QuitEach(_, _)
QuitEach(s, ids) ==
    IF ids = {} \/ s.exc # "none" THEN s
    ELSE LET aid == CHOOSE i \in ids : \A j \in ids : i <= j
         IN QuitEach(quit(s, TRUE, aid), ids \ {aid})

close_all_applications(s) == QuitEach(s, DOMAIN s.apps)

----------------------------------------------------------------------------
(* Click keywords *)

\* A snapshot as get_element_attributes builds it from a control.
Element(name, class_name, control_type, automation_id, l, t, r, b) ==
    [name |-> name, class_name |-> class_name, control_type |-> control_type,
     automation_id |-> automation_id, rectangle |-> FormatRect(l, t, r, b)]

WindowElement == Element(<<"w">>, <<"c">>, <<"W">>, <<>>, 0, 0, 8, 8)
ButtonA == Element(<<"a">>, <<"c">>, <<"b">>, <<"i">>, 1, 2, 4, 7)
ButtonB == Element(<<"a">>, <<"c">>, <<"b">>, <<"j">>, 10, 0, 12, 3)
ButtonN == Element(<<"n">>, <<"d">>, <<"b">>, <<"k">>, -4, 0, 10, 2)

\* What the backend may list for the window: the window, then its descendants.
Trees ==
    {<<WindowElement>>, <<WindowElement, ButtonA>>, <<WindowElement, ButtonB>>,
     <<WindowElement, ButtonA, ButtonB>>, <<WindowElement, ButtonN, ButtonA>>}

ClickLocators ==
    {PrefixName \o <<"a">>, PrefixId \o <<"j">>, <<"n">>, <<"c">>}

ClickTypes == {"click", "double", "right"}
Offsets == {<<-3, 0>>, <<0, 1>>}
Coords == {<<-1, 0>>, <<1, -1>>, <<1, 0>>}

\* The coordinates refused only when both are negative.
click_type_both(s, x, y, ctype) ==
    IF s.exc # "none" THEN s
    ELSE IF x < 0 /\ y < 0 THEN Raise(s, "ValueError")
    ELSE IF ctype = "click" THEN Call(s, "click", x, y)
    ELSE IF ctype = "double" THEN Call(s, "double_click", x, y)
    ELSE IF ctype = "right" THEN Call(s, "right_click", x, y)
    ELSE s

click_type(s, x, y, ctype) ==
    IF s.exc # "none" THEN s
    ELSE IF x < 0 \/ y < 0 THEN Raise(s, "ValueError")
    ELSE IF ctype = "click" THEN Call(s, "click", x, y)
    ELSE IF ctype = "double" THEN Call(s, "double_click", x, y)
    ELSE IF ctype = "right" THEN Call(s, "right_click", x, y)
    ELSE s

mouse_click_coords(s, x, y, ctype) == click_type(s, x, y, ctype)

Return(s, value) == IF s.exc = "none" THEN [s EXCEPT !.ret = value] ELSE s

\* self.dlg.wait("exists enabled visible ready")
WaitDialog(s) ==
    IF s.dlg = NoneStr THEN Raise(s, "AttributeError")
    ELSE IF Owners(s, s.dlg) = {} THEN Raise(s, "TimeoutError")
    ELSE s

\* The branch of exactly one match: centre, offsets, click.
ClickElement(s, element, off_x, off_y, ctype) ==
    IF "rectangle" \notin DOMAIN element THEN Raise(s, "KeyError")
    ELSE IF RectGroups(element["rectangle"]) = <<>>
    THEN Raise(s, "AttributeError")
    ELSE LET c == get_element_center(element["rectangle"])
             s1 == [s EXCEPT !.cx = c[1], !.cy = c[2]]
         IN Return(click_type(s1, c[1] + off_x, c[2] + off_y, ctype), "True")

mouse_click_locator(s, elements, locator, off_x, off_y, ctype, pick) ==
    LET s1 == open_dialog(WaitDialog(s), s.windowtitle, pick)
    IN IF s1.exc # "none" THEN s1
       ELSE LET parsed == determine_search_criteria(locator)
                matching_elements ==
                    find_element(elements, parsed.locator, parsed.criteria)
                s2 == [s1 EXCEPT !.nmatch = Len(matching_elements)]
            IN IF Len(matching_elements) = 0 THEN Return(s2, "False")
               ELSE IF Len(matching_elements) = 1
               THEN ClickElement(s2, matching_elements[1], off_x, off_y, ctype)
               ELSE Return(s2, "False")

\* The dispatcher: it returns nothing, whatever the keyword it calls returns.
mouse_click(s, elements, method, locator, x, y, off_x, off_y, ctype, pick) ==
    LET s1 == IF method = "locator"
              THEN mouse_click_locator(s, elements, locator, off_x, off_y,
                                       ctype, pick)
              ELSE IF method = "coordinates" THEN mouse_click_coords(s, x, y, ctype)
              ELSE IF method \in {"image", "ocr"}
              THEN Raise(s, "NotImplementedError")
              ELSE s
    IN Return(s1, "None")

----------------------------------------------------------------------------
(* Keywords as actions *)

NoClick == [locator |-> <<>>, x |-> 0, y |-> 0, off_x |-> 0, off_y |-> 0,
            ctype |-> "", tree |-> <<>>, nmatch |-> -1, cx |-> 0, cy |-> 0]

Commit(s, op, arg, ret, ret_id) ==
    /\ apps' = s.apps
    /\ app_instance_id' = s.app_instance_id
    /\ active_app_instance' = s.active_app_instance
    /\ app' = s.app
    /\ dlg' = s.dlg
    /\ windowtitle' = s.windowtitle
    /\ alive' = s.alive
    /\ windows' = s.windows
    /\ nproc' = s.nproc
    /\ com' = s.com
    /\ calls' = s.calls
    /\ last' = [op |-> op, arg |-> arg, result |-> s.exc,
                ret |-> IF s.exc = "none" THEN ret ELSE "raised",
                ret_id |-> IF s.exc = "none" THEN ret_id ELSE 0]

Registered(s) ==
    returned' = IF s.exc = "none" THEN returned \cup {AddReturn(s)} ELSE returned

TitleParams(title, executable) ==
    [dispatched |-> FALSE, windowtitle |-> title, executable |-> executable]

open_application ==
    /\ app_instance_id < id_limit
    /\ LET s0 == Dispatch(Cur)
           s == add_app_instance(s0, s0.nproc, FALSE,
                    [dispatched |-> TRUE, windowtitle |-> Absent,
                     executable |-> Absent], NoneApp)
       IN /\ Commit(s, "open_application", 0, "id", AddReturn(s))
          /\ Registered(s)
    /\ click' = NoClick
    /\ UNCHANGED <<id_limit, tree, pin, pout>>

open_executable ==
    /\ app_instance_id < id_limit
    /\ \E executable \in Executables, title \in Titles, shows \in BOOLEAN :
        LET s0 == StartProcess([Cur EXCEPT !.windowtitle = title], title, shows)
        IN \E pick \in Picks(s0, title) :
            LET s == add_app_instance(s0, s0.nproc, TRUE,
                                      TitleParams(title, executable), pick)
            IN /\ Commit(s, "open_executable", 0, "id", AddReturn(s))
               /\ Registered(s)
    /\ click' = NoClick
    /\ UNCHANGED <<id_limit, tree, pin, pout>>

\* open_using_run_dialog and open_from_search: the keys sent to the desktop
\* start the executable; the object gets no handle from it.
OpenByKeys(op) ==
    /\ app_instance_id < id_limit
    /\ \E executable \in Executables, title \in Titles, shows \in BOOLEAN :
        LET s0 == Call(StartProcess(Cur, title, shows), "send_keys", 0, 0)
        IN \E pick \in Picks(s0, title) :
            LET s == add_app_instance(s0, NoneApp, TRUE,
                                      TitleParams(title, executable), pick)
            IN /\ Commit(s, op, 0, "id", AddReturn(s))
               /\ Registered(s)
    /\ click' = NoClick
    /\ UNCHANGED <<id_limit, tree, pin, pout>>

open_using_run_dialog == OpenByKeys("open_using_run_dialog")

open_from_search == OpenByKeys("open_from_search")

SwitchToApplication ==
    /\ \E app_id \in 0..(id_limit + 1) :
        \E pick \in (IF app_id \in DOMAIN apps
                     THEN Picks(Cur, apps[app_id].windowtitle) ELSE {NoneApp}) :
            Commit(switch_to_application(Cur, app_id, pick),
                   "switch_to_application", app_id, "None", 0)
    /\ click' = NoClick
    /\ UNCHANGED <<returned, id_limit, tree, pin, pout>>

QuitById ==
    /\ \E app_id \in 0..(id_limit + 1) :
        Commit(quit(Cur, TRUE, app_id), "quit", app_id, "None", 0)
    /\ click' = NoClick
    /\ UNCHANGED <<returned, id_limit, tree, pin, pout>>

QuitActive ==
    /\ Commit(quit(Cur, FALSE, 0), "quit_active", active_app_instance, "None", 0)
    /\ click' = NoClick
    /\ UNCHANGED <<returned, id_limit, tree, pin, pout>>

CloseAllApplications ==
    /\ Commit(close_all_applications(Cur), "close_all_applications", 0, "None", 0)
    /\ click' = NoClick
    /\ UNCHANGED <<returned, id_limit, tree, pin, pout>>

----------------------------------------------------------------------------
(* Specification of the registry and its lifecycle *)

InitLast ==
    [op |-> "init", arg |-> 0, result |-> "none", ret |-> "None", ret_id |-> 0]

InitObject ==
    /\ apps = << >>
    /\ app_instance_id = 0
    /\ active_app_instance = NoActive
    /\ app = NoneApp
    /\ dlg = NoneStr
    /\ windowtitle = NoneStr
    /\ alive = {}
    /\ windows = {}
    /\ nproc = 0
    /\ com = {}
    /\ last = InitLast
    /\ calls = <<>>
    /\ click = NoClick
    /\ returned = {}
    /\ tree = <<WindowElement>>
    /\ pin = <<>>
    /\ pout = <<>>

Init == InitObject /\ id_limit = MaxId

Next ==
    \/ open_application
    \/ open_executable
    \/ open_using_run_dialog
    \/ open_from_search
    \/ SwitchToApplication
    \/ QuitById
    \/ QuitActive
    \/ CloseAllApplications

Spec == Init /\ [][Next]_vars

----------------------------------------------------------------------------
(* Properties of the registry *)

RegistrationOps ==
    {"open_application", "open_executable", "open_using_run_dialog",
     "open_from_search"}

QuitOps == {"quit", "quit_active"}

\* C1: a registration that returns, returns an id greater than every id a
\* registration returned before (so ids are unique and never reused, also
\* after a quit), and the active pointer is then the id returned.
C1_IdsIncrease ==
    [][(last'.op \in RegistrationOps /\ last'.result = "none")
        => /\ \A r \in returned : r < last'.ret_id
           /\ active_app_instance' = last'.ret_id]_vars

C1_Witness ==
    /\ last.op \in RegistrationOps
    /\ last.result = "none"
    /\ last.ret_id = 2
    /\ returned = {1, 2}
    /\ apps[1].app = NoneApp

\* C2: switch_to_application with an id that is not in the registry raises
\* ValueError and leaves the active pointer, the application handle and the
\* registry as they were.
C2_SwitchUnknown ==
    [][(last'.op = "switch_to_application" /\ last'.arg \notin DOMAIN apps)
        => /\ last'.result = "ValueError"
           /\ UNCHANGED <<active_app_instance, app, apps>>]_vars

C2_Witness ==
    /\ last.op = "switch_to_application"
    /\ last.result = "ValueError"
    /\ last.arg \notin DOMAIN apps
    /\ last.arg # 0
    /\ active_app_instance \in DOMAIN apps
    /\ app # NoneApp

\* C3: switch_to_application with an id of the registry, whichever keyword
\* registered (and returned) it, returns with the active pointer at the id, the application
\* handle that of the session, and the window under the session's title
\* re-attached and restored (a window the desktop does not show set aside).
C3_SwitchKnown ==
    (/\ last.op = "switch_to_application"
     /\ last.arg \in returned
     /\ last.result # "ElementNotFoundError")
    => /\ last.result = "none"
       /\ active_app_instance = last.arg
       /\ app = apps[last.arg].app
       /\ dlg = apps[last.arg].windowtitle
       /\ apps[last.arg].dlg = apps[last.arg].windowtitle
       /\ \E i \in 1..Len(calls) : calls[i].fn = "restore"

\* C4: quit of a session of the registry (one whose registration returned its
\* id), by id or as the active session, makes exactly one terminate call, Quit() for a dispatched session and
\* kill() otherwise; afterwards the session's handle is cleared, the active
\* pointer is -1 and the records of the other sessions are unchanged.
C4_QuitTerminates ==
    [][(last'.op \in QuitOps /\ last'.arg \in returned)
        => /\ last'.result = "none"
           /\ calls' = <<[fn |-> IF apps[last'.arg].dispatched
                                   THEN "Quit" ELSE "kill",
                           a |-> apps[last'.arg].app, b |-> 0]>>
           /\ apps'[last'.arg].app = NoneApp
           /\ active_app_instance' = NoActive
           /\ \A i \in DOMAIN apps : i # last'.arg => apps'[i] = apps[i]]_vars

\* C5: in a registry built by registrations that returned, by switches and
\* by quits, close_all_applications makes a terminate call for each id of the
\* registry and ends with every handle cleared and the active pointer -1.
C5_CloseAll ==
    (last.op = "close_all_applications" /\ DOMAIN apps = returned)
    => /\ last.result = "none"
       /\ Len(calls) = Cardinality(DOMAIN apps)
       /\ \A i \in DOMAIN apps : apps[i].app = NoneApp
       /\ active_app_instance = NoActive

----------------------------------------------------------------------------
(* Specifications of the pure functions: each step calls the function on one
   input of a bounded set *)

PureStep(op, input, output) ==
    /\ last.op = "init"
    /\ pin = input
    /\ pout' = output
    /\ last' = [op |-> op, arg |-> 0, result |-> "none", ret |-> "None",
                ret_id |-> 0]
    /\ UNCHANGED <<progvars, envvars, calls, click, returned, id_limit, tree, pin>>

InitPure(inputs) ==
    /\ apps = << >>
    /\ app_instance_id = 0
    /\ active_app_instance = NoActive
    /\ app = NoneApp
    /\ dlg = NoneStr
    /\ windowtitle = NoneStr
    /\ alive = {}
    /\ windows = {}
    /\ nproc = 0
    /\ com = {}
    /\ last = InitLast
    /\ calls = <<>>
    /\ click = NoClick
    /\ returned = {}
    /\ tree = <<WindowElement>>
    /\ id_limit = 0
    /\ pin \in inputs
    /\ pout = <<>>

\* Locator texts: up to MaxPieces pieces in a row.
LocatorPieces ==
    {PrefixName, PrefixClass, PrefixType, PrefixId,
     <<"x">>, <<"v", "a", "l">>, <<":">>, <<" ">>}

RECURSIVE LocatorTexts(_)
LocatorTexts(n) ==
    IF n = 0 THEN {<<>>}
    ELSE LET shorter == LocatorTexts(n - 1)
         IN shorter \cup {a \o b : a \in shorter, b \in LocatorPieces}

DetermineSearchCriteria ==
    PureStep("determine_search_criteria", pin, determine_search_criteria(pin))

SpecLocator ==
    InitPure(LocatorTexts(MaxPieces)) /\ [][DetermineSearchCriteria]_vars

MatchValues == {<<"a">>, <<"b">>}

Snapshots == UNION {[D -> MatchValues] : D \in SUBSET MatchFields}

\* pin: <<itemdict, locator, criteria>>
IsElementMatching ==
    PureStep("is_element_matching", pin,
             is_element_matching(pin[1], pin[2], pin[3]))

SpecMatch ==
    InitPure(Snapshots \X MatchValues \X (MatchFields \cup {"any"}))
    /\ [][IsElementMatching]_vars

ExampleRect == <<10, 20, 110, 220>>

Rects ==
    {q \in (0..MaxCoord) \X (0..MaxCoord) \X (0..MaxCoord) \X (0..MaxCoord) :
        q[1] <= q[3] /\ q[2] <= q[4]} \cup {ExampleRect}

\* pin: <<l, t, r, b>>, the rectangle the backend prints
GetElementCenter ==
    LET text == FormatRect(pin[1], pin[2], pin[3], pin[4])
    IN PureStep("get_element_center", pin,
                [text |-> text,
                 coordinates |-> get_element_coordinates(text),
                 center |-> get_element_center(text)])

SpecRect == InitPure(Rects) /\ [][GetElementCenter]_vars

----------------------------------------------------------------------------
(* Properties of the pure functions *)

PrefixOf(locator) ==
    IF StartsWith(locator, PrefixName) THEN PrefixName
    ELSE IF StartsWith(locator, PrefixClass) THEN PrefixClass
    ELSE IF StartsWith(locator, PrefixType) THEN PrefixType
    ELSE IF StartsWith(locator, PrefixId) THEN PrefixId
    ELSE <<>>

CriterionOf(prefix) ==
    IF prefix = PrefixName THEN "name"
    ELSE IF prefix = PrefixClass THEN "class_name"
    ELSE IF prefix = PrefixType THEN "control_type"
    ELSE IF prefix = PrefixId THEN "automation_id"
    ELSE "any"

\* C8: a locator that starts with name:, class:, type: or id: parses to the
\* criterion of the prefix and to the locator with that leading prefix removed
\* once, later occurrences of the prefix text kept; any other locator parses
\* to 'any' and itself.
C8_PrefixStrippedOnce ==
    last.op = "determine_search_criteria"
    => /\ pout.criteria = CriterionOf(PrefixOf(pin))
       /\ pout.locator = SubSeq(pin, Len(PrefixOf(pin)) + 1, Len(pin))

\* C9: with criterion 'any' is_element_matching is true exactly when the
\* locator equals the snapshot's name, class_name, control_type or
\* automation_id, absent fields never matching; with a specific criterion it
\* is true exactly when that field is present and equal to the locator.
C9_Matching ==
    last.op = "is_element_matching"
    => (pout <=> \E f \in (IF pin[3] = "any" THEN MatchFields ELSE {pin[3]}) :
                    f \in DOMAIN pin[1] /\ pin[1][f] = pin[2])

C9_Witness ==
    /\ last.op = "is_element_matching"
    /\ pin[3] = "any"
    /\ DOMAIN pin[1] = {"name", "automation_id"}
    /\ pin[1]["name"] # pin[2]
    /\ pout = TRUE

\* C10: the text (L<l>, T<t>, R<r>, B<b>) with 0 <= l <= r and 0 <= t <= b
\* parses to (l, t, r, b) and has the centre (l + (r - l) div 2,
\* t + (b - t) div 2); (L10, T20, R110, B220) parses to (10, 20, 110, 220)
\* with the centre (60, 120).
C10_RectParsed ==
    last.op = "get_element_center"
    => /\ pout.coordinates = pin
       /\ pout.center = <<pin[1] + ((pin[3] - pin[1]) \div 2),
                          pin[2] + ((pin[4] - pin[2]) \div 2)>>
       /\ (pin = ExampleRect => pout.center = <<60, 120>>)

C10_Witness ==
    /\ last.op = "get_element_center"
    /\ pout.text = <<"(", "L", "1", "0", ",", " ", "T", "2", "0", ",", " ",
                     "R", "1", "1", "0", ",", " ", "B", "2", "2", "0", ")">>
    /\ pout.coordinates = <<10, 20, 110, 220>>
    /\ pout.center = <<60, 120>>

----------------------------------------------------------------------------
(* Specification of the click keywords, on a registry of MaxClickId sessions *)

CommitClick(s, op, locator, x, y, off_x, off_y, ctype) ==
    /\ Commit(s, op, 0, s.ret, 0)
    /\ click' = [locator |-> locator, x |-> x, y |-> y, off_x |-> off_x,
                 off_y |-> off_y, ctype |-> ctype, tree |-> tree,
                 nmatch |-> s.nmatch, cx |-> s.cx, cy |-> s.cy]
    /\ UNCHANGED <<returned, id_limit, tree, pin, pout>>

\* The window's controls change between two keywords.
SetTree ==
    /\ tree' \in Trees \ {tree}
    /\ last' = [InitLast EXCEPT !.op = "(window changed)"]
    /\ calls' = <<>>
    /\ click' = NoClick
    /\ UNCHANGED <<progvars, envvars, returned, id_limit, pin, pout>>

MouseClickLocator ==
    \E locator \in ClickLocators, off \in Offsets, ctype \in ClickTypes,
       pick \in Picks(Cur, windowtitle) :
        CommitClick(mouse_click_locator(Cur, tree, locator, off[1], off[2],
                                        ctype, pick),
                    "mouse_click_locator", locator, 0, 0, off[1], off[2], ctype)

MouseClickCoords ==
    \E xy \in Coords, ctype \in ClickTypes :
        CommitClick(mouse_click_coords(Cur, xy[1], xy[2], ctype),
                    "mouse_click_coords", <<>>, xy[1], xy[2], 0, 0, ctype)

ClickType ==
    \E xy \in Coords, ctype \in ClickTypes :
        CommitClick(click_type(Cur, xy[1], xy[2], ctype),
                    "click_type", <<>>, xy[1], xy[2], 0, 0, ctype)

MouseClickByLocator ==
    \E locator \in ClickLocators, pick \in Picks(Cur, windowtitle) :
        CommitClick(mouse_click(Cur, tree, "locator", locator, 0, 0, 0, 0,
                                "click", pick),
                    "mouse_click/locator", locator, 0, 0, 0, 0, "click")

MouseClickByCoordinates ==
    \E xy \in Coords, ctype \in ClickTypes :
        CommitClick(mouse_click(Cur, tree, "coordinates", <<>>, xy[1], xy[2], 0, 0,
                                ctype, NoneApp),
                    "mouse_click/coordinates", <<>>, xy[1], xy[2], 0, 0, ctype)

MouseClickUnimplemented ==
    \E method \in {"image", "ocr"} :
        CommitClick(mouse_click(Cur, tree, method, <<>>, 0, 0, 0, 0, "click",
                                NoneApp),
                    "mouse_click/unimplemented", <<>>, 0, 0, 0, 0, "click")

InitClick == InitObject /\ id_limit = MaxClickId

NextClick ==
    \/ open_application
    \/ open_executable
    \/ QuitActive
    \/ SetTree
    \/ MouseClickLocator
    \/ MouseClickCoords
    \/ ClickType
    \/ MouseClickByLocator
    \/ MouseClickByCoordinates
    \/ MouseClickUnimplemented

SpecClick == InitClick /\ [][NextClick]_vars

----------------------------------------------------------------------------
(* Properties of the click keywords *)

ClickCall(ctype) ==
    IF ctype = "click" THEN "click"
    ELSE IF ctype = "double" THEN "double_click" ELSE "right_click"

\* The rectangle whose print is the snapshot's rectangle text.
BoundsOf(element) ==
    CHOOSE q \in (-4..12) \X (-4..12) \X (-4..12) \X (-4..12) :
        FormatRect(q[1], q[2], q[3], q[4]) = element["rectangle"]

CentreOf(q) ==
    <<q[1] + ((q[3] - q[1]) \div 2), q[2] + ((q[4] - q[2]) \div 2)>>

\* The snapshots of the tree the parsed locator names.
Named(elements, locator) ==
    LET prefix == PrefixOf(locator)
        value == SubSeq(locator, Len(prefix) + 1, Len(locator))
        fields == IF prefix = <<>> THEN MatchFields ELSE {CriterionOf(prefix)}
    IN {i \in 1..Len(elements) :
           \E f \in fields : f \in DOMAIN elements[i] /\ elements[i][f] = value}

\* C6: mouse_click_locator on a window it reaches: when exactly one element
\* matches, and the centre of its rectangle plus the offsets is a point of
\* non-negative coordinates, there is exactly one backend click, at that
\* point, and True is returned; when no or several elements match there is no
\* backend click and False is returned, nothing raised.
C6_LocatorClick ==
    (last.op = "mouse_click_locator" /\ click.nmatch >= 0)
    => LET named == Named(click.tree, click.locator) IN
       /\ click.nmatch = Cardinality(named)
       /\ Cardinality(named) = 1 =>
            LET c == CentreOf(BoundsOf(click.tree[CHOOSE i \in named : TRUE]))
            IN (c[1] + click.off_x >= 0 /\ c[2] + click.off_y >= 0)
               => /\ last.result = "none"
                  /\ last.ret = "True"
                  /\ calls = <<[fn |-> ClickCall(click.ctype),
                                a |-> c[1] + click.off_x,
                                b |-> c[2] + click.off_y]>>
       /\ Cardinality(named) # 1 =>
            /\ last.result = "none"
            /\ last.ret = "False"
            /\ calls = <<>>

CoordinateOps ==
    {"mouse_click_coords", "click_type", "mouse_click/coordinates"}

\* C7: a coordinate click (mouse_click with method coordinates,
\* mouse_click_coords, click_type) with x < 0 or y < 0 raises ValueError and
\* makes no backend mouse call, for every click type.
C7_NegativeCoordinates ==
    (last.op \in CoordinateOps /\ (click.x < 0 \/ click.y < 0))
    => last.result = "ValueError" /\ calls = <<>>

C7_Witness ==
    /\ last.op = "mouse_click/coordinates"
    /\ click.x >= 0
    /\ click.y < 0
    /\ click.ctype = "right"
    /\ last.result = "ValueError"
    /\ calls = <<>>

\* C11: mouse_click with method "locator" hands the outcome to its caller as
\* a boolean: True when exactly one element matched and the click was made,
\* False (and no exception) when no element or several elements matched.
C11_DispatcherReturns ==
    (last.op = "mouse_click/locator" /\ click.nmatch >= 0)
    => /\ (click.nmatch = 1 /\ calls # <<>>) => last.ret = "True"
       /\ click.nmatch # 1 => (last.result = "none" /\ last.ret = "False")

----------------------------------------------------------------------------
(* Properties of the active pointer and of the current window *)

\* C12: the active pointer is -1 or the id of a session of the registry, in
\* every state, also after a keyword that raised; it is -1 in the initial
\* state and after every quit that returned.
C12_ActivePointer ==
    /\ active_app_instance = NoActive \/ active_app_instance \in DOMAIN apps
    /\ last.op = "init" => active_app_instance = NoActive
    /\ (last.op \in QuitOps /\ last.result = "none")
         => active_app_instance = NoActive

C12_Witness ==
    /\ last.op \in QuitOps
    /\ last.result = "none"
    /\ active_app_instance = NoActive
    /\ Cardinality(DOMAIN apps) = 2
    /\ \E i \in DOMAIN apps : apps[i].app # NoneApp

\* C13: whenever a session is active (one whose registration returned its
\* id) after a keyword that returned, the current window, self.dlg and
\* self.windowtitle, which the element keywords act on, is the window
\* recorded for the active session (none for a session recorded without a
\* window title), whichever of the four keywords registered the session.
C13_CurrentWindow ==
    (active_app_instance \in returned /\ last.result = "none")
    => /\ windowtitle = GetTitle(apps[active_app_instance])
       /\ dlg = GetTitle(apps[active_app_instance])

----------------------------------------------------------------------------
(* Properties of the handles *)

KeyOps == {"open_using_run_dialog", "open_from_search"}

\* The window titles the sessions were registered with tell them apart.
TitlesDistinct ==
    \A i \in returned : \A j \in returned :
        (i # j /\ apps[i].windowtitle # Absent)
        => apps[i].windowtitle # apps[j].windowtitle

\* C14: among sessions registered under different window titles (sessions
\* whose registration returned their id), the handle stored for a session is
\* the handle of the session's own application: a session registered by
\* open_using_run_dialog or open_from_search holds the handle of an
\* application that shows a window under the session's title, no two
\* sessions hold the same handle, a dispatched session holds a COM object
\* and any other session a process, and a quit that returns has made its one
\* terminate call on a handle that no other session holds.
C14_OwnHandle ==
    TitlesDistinct
    => /\ (last.op \in KeyOps /\ last.result = "none")
            => apps[last.ret_id].app
                  \in Owners(Cur, apps[last.ret_id].windowtitle)
       /\ \A i \in returned : \A j \in returned :
             (i # j /\ apps[i].app # NoneApp) => apps[i].app # apps[j].app
       /\ \A i \in returned :
             apps[i].app # NoneApp
             => (apps[i].app \in com <=> apps[i].dispatched)
       /\ (/\ last.op \in QuitOps
           /\ last.result = "none"
           /\ last.arg \in returned)
            => /\ Len(calls) = 1
               /\ calls[1].fn =
                     (IF apps[last.arg].dispatched THEN "Quit" ELSE "kill")
               /\ \A j \in returned :
                     j # last.arg => apps[j].app # calls[1].a

----------------------------------------------------------------------------
(* Specification of the keywords called with and without an active session,
   on a registry of MaxId sessions and a window of one control *)

NextNoActive ==
    \/ open_application
    \/ open_executable
    \/ QuitById
    \/ QuitActive
    \/ MouseClickLocator

SpecNoActive == Init /\ [][NextNoActive]_vars

\* C15: with no session active (active pointer -1, initially or after a
\* quit), quit() without an id and mouse_click_locator end with an exception,
\* make no backend call (no Quit, no kill, no click), and leave the registry
\* and the active pointer as they were.
C15_NoActiveSession ==
    [][(/\ active_app_instance = NoActive
        /\ last'.op \in {"quit_active", "mouse_click_locator"})
        => /\ last'.result # "none"
           /\ calls' = <<>>
           /\ UNCHANGED <<apps, active_app_instance>>]_vars

C15_Witness ==
    /\ last.op = "mouse_click_locator"
    /\ last.result = "KeyError"
    /\ active_app_instance = NoActive
    /\ dlg # NoneStr
    /\ Owners(Cur, dlg) # {}
    /\ \E i \in DOMAIN apps : apps[i].app = NoneApp

====
